---- MODULE Spec2Model ----
(***************************************************************************)
(* migrate-to-slf4j.py: the script that rewrites System.out / System.err   *)
(* calls of Java files to SLF4J logger calls.                              *)
(*                                                                         *)
(* Text is a sequence of lexemes (tokens); every token is the piece of     *)
(* Java text it spells, and the text of a file is the concatenation of its *)
(* tokens.  The regular expressions of the script are matched over tokens  *)
(* with the semantics of Python's re (leftmost match, greedy quantifiers   *)
(* with backtracking, re.sub scanning on after each match).                *)
(***************************************************************************)
EXTENDS Naturals, Sequences, FiniteSets, TLC

(***************************************************************************)
(* Lexemes                                                                 *)
(***************************************************************************)
QUOTE == "\""
NL == "\n"
SP == " "
INDENT == "    "

\* \s
IsSpace(t) == t \in {SP, NL, INDENT}

\* \w+ : a token made of word characters only
IsWord(t) == t \in {"import", "public", "class", "private", "static", "final",
                    "extends", "Logger", "log", "Foo", "Bar", "Hello",
                    "Value", "Total", "result", "x", "f", "count"}

\* [\w.]+ : a token made of word characters and dots only
IsWordDot(t) == IsWord(t) \/ t \in {"java.util.List", "org.slf4j.Logger",
                                    "org.slf4j.LoggerFactory",
                                    "LoggerFactory.getLogger", ".class",
                                    "System.out.println", "System.out.print",
                                    "System.err.println", "log.info",
                                    "log.error", ".java", ".txt"}

\* Python's None (get_class_name without a match)
None == "<None>"

At(c, i) == IF i \in 1..Len(c) THEN c[i] ELSE "<end>"

\* content[:pos] + ins + content[pos:]
InsertAt(c, pos, ins) == SubSeq(c, 1, pos) \o ins \o SubSeq(c, pos + 1, Len(c))

\* the index of the first token at or after i that is in the class Stop, the
\* index after the text without one: where a greedy run of the other tokens ends
FirstFrom(c, i, Stop(_)) ==
    IF \E j \in i..Len(c) : Stop(c[j])
    THEN CHOOSE j \in i..Len(c) : Stop(c[j]) /\ \A k \in i..(j - 1) : ~Stop(c[k])
    ELSE IF i > Len(c) THEN i ELSE Len(c) + 1

\* the index of the first token at or after i that is not white space (\s*)
SkipSpace(c, i) == LET NotSpace(t) == ~IsSpace(t) IN FirstFrom(c, i, NotSpace)

\* the index of the first token at or after i that is outside [\w.]
SkipWordDot(c, i) == LET NotWordDot(t) == ~IsWordDot(t) IN FirstFrom(c, i, NotWordDot)

\* word \s+ : the index after the white space that follows word w at i, or 0
AfterWordSp(c, i, w) ==
    IF At(c, i) = w /\ IsSpace(At(c, i + 1)) THEN SkipSpace(c, i + 1) ELSE 0

\* 'needle' in content, for a one-token needle
Contains(c, t) == \E i \in 1..Len(c) : c[i] = t

(***************************************************************************)
(* has_slf4j_import: 'import org.slf4j.Logger' in content.  The needle is  *)
(* "import", one blank, and a name that starts with org.slf4j.Logger.      *)
(***************************************************************************)
has_slf4j_import(c) ==
    \E i \in 1..Len(c) :
        /\ c[i] = "import"
        /\ At(c, i + 1) = SP
        /\ At(c, i + 2) \in {"org.slf4j.Logger", "org.slf4j.LoggerFactory"}

(***************************************************************************)
(* has_logger_declaration:                                                 *)
(*   re.search(r'private\s+static\s+final\s+Logger\s+log\s*=', content)    *)
(***************************************************************************)
LoggerDeclAt(c, i) ==
    LET a == AfterWordSp(c, i, "private")
        b == IF a = 0 THEN 0 ELSE AfterWordSp(c, a, "static")
        d == IF b = 0 THEN 0 ELSE AfterWordSp(c, b, "final")
        e == IF d = 0 THEN 0 ELSE AfterWordSp(c, d, "Logger")
    IN  /\ e # 0
        /\ At(c, e) = "log"
        /\ At(c, SkipSpace(c, e + 1)) = "="

has_logger_declaration(c) == \E i \in 1..Len(c) : LoggerDeclAt(c, i)

(***************************************************************************)
(* get_class_name: re.search(r'public\s+class\s+(\w+)', content), group 1  *)
(* of the leftmost match, or None.                                         *)
(***************************************************************************)
ClassNameAt(c, i) ==
    LET a == AfterWordSp(c, i, "public")
        b == IF a = 0 THEN 0 ELSE AfterWordSp(c, a, "class")
    IN  IF b # 0 /\ IsWord(At(c, b)) THEN b ELSE 0

get_class_name(c) ==
    LET hits == {i \in 1..Len(c) : ClassNameAt(c, i) # 0}
    IN  IF hits = {} THEN None
        ELSE LET first == CHOOSE i \in hits : \A j \in hits : i <= j
             IN  c[ClassNameAt(c, first)]

(***************************************************************************)
(* add_slf4j_import: the two imports go after the end of the last match of *)
(* r'(import\s+[\w.]+;)'; without a match the content is returned as is.   *)
(***************************************************************************)
\* the index of the ';' that ends a match starting at i, or 0
ImportEndAt(c, i) ==
    LET a == AfterWordSp(c, i, "import")
        b == IF a = 0 THEN 0 ELSE SkipWordDot(c, a)
    IN  IF a # 0 /\ b > a /\ At(c, b) = ";" THEN b ELSE 0

slf4j_imports == <<NL, "import", SP, "org.slf4j.Logger", ";",
                   NL, "import", SP, "org.slf4j.LoggerFactory", ";">>

add_slf4j_import(c) ==
    LET imports == {i \in 1..Len(c) : ImportEndAt(c, i) # 0}
    IN  IF imports # {}
        THEN LET last_import == CHOOSE i \in imports : \A j \in imports : j <= i
                 insert_pos == ImportEndAt(c, last_import)
             IN  InsertAt(c, insert_pos, slf4j_imports)
        ELSE c

(***************************************************************************)
(* add_logger_declaration: the field goes after the end of the leftmost    *)
(* match of rf'(@Configuration\s+)?public\s+class\s+{class_name}\s*{{'.    *)
(* The optional annotation only moves the start of the match, never its    *)
(* end, which is all the function uses.                                    *)
(***************************************************************************)
\* the index of the '{' that ends a match whose 'public' is at i, or 0
ClassOpenAt(c, i, class_name) ==
    LET a == AfterWordSp(c, i, "public")
        b == IF a = 0 THEN 0 ELSE AfterWordSp(c, a, "class")
        e == IF b # 0 /\ At(c, b) = class_name THEN SkipSpace(c, b + 1) ELSE 0
    IN  IF e # 0 /\ At(c, e) = "{" THEN e ELSE 0

logger_declaration(class_name) ==
    <<NL, NL, INDENT, "private", SP, "static", SP, "final", SP, "Logger", SP,
      "log", SP, "=", SP, "LoggerFactory.getLogger", "(", class_name, ".class",
      ")", ";">>

add_logger_declaration(c, class_name) ==
    LET hits == {i \in 1..Len(c) : ClassOpenAt(c, i, class_name) # 0}
    IN  IF hits # {}
        THEN LET first == CHOOSE i \in hits : \A j \in hits : i <= j
                 insert_pos == ClassOpenAt(c, first, class_name)
             IN  InsertAt(c, insert_pos, logger_declaration(class_name))
        ELSE c

(***************************************************************************)
(* Call rewriting: replace_system_out and replace_system_err.  A stream is *)
(* "out" or "err"; both functions apply the same three patterns, with      *)
(* their own call and their own logger method.                             *)
(***************************************************************************)
CallOf(stream) == IF stream = "out" THEN "System.out.println" ELSE "System.err.println"

\* the index of the first '"' at or after i, Len(c) + 1 without one ([^"]*)
NextQuote(c, i) == LET IsQuote(t) == t = QUOTE IN FirstFrom(c, i, IsQuote)

\* the index of the first ')' at or after i, Len(c) + 1 without one ([^)]*)
NextRParen(c, i) == LET IsRParen(t) == t = ")" IN FirstFrom(c, i, IsRParen)

NoMatch == [end |-> 0, g1 |-> <<>>, g2 |-> <<>>]

\* r'System\.out\.println\("([^"]+)"\);' at i
MatchLiteral(c, i, call) ==
    IF At(c, i) = call /\ At(c, i + 1) = "(" /\ At(c, i + 2) = QUOTE
    THEN LET q == NextQuote(c, i + 3)
         IN  IF q > i + 3 /\ At(c, q) = QUOTE /\ At(c, q + 1) = ")" /\ At(c, q + 2) = ";"
             THEN [end |-> q + 2, g1 |-> SubSeq(c, i + 3, q - 1), g2 |-> <<>>]
             ELSE NoMatch
    ELSE NoMatch

\* r'System\.out\.println\("([^"]+):\s*"\s*\+\s*([^)]+)\);' at i.  Group 1 is
\* greedy and gives back to the last ':' that only white space separates
\* from the closing quote; the \s* after '+' is greedy and gives back one
\* blank when group 2 would otherwise be empty.
MatchConcat(c, i, call) ==
    IF At(c, i) = call /\ At(c, i + 1) = "(" /\ At(c, i + 2) = QUOTE
    THEN LET q == NextQuote(c, i + 3)
             colons == {p \in (i + 4)..(q - 1) : c[p] = ":" /\ SkipSpace(c, p + 1) = q}
         IN  IF At(c, q) = QUOTE /\ colons # {}
             THEN LET p == CHOOSE x \in colons : \A y \in colons : y <= x
                      plus == SkipSpace(c, q + 1)
                      s == SkipSpace(c, plus + 1)
                      r == NextRParen(c, s)
                      g == IF r > s THEN s ELSE IF s > plus + 1 THEN s - 1 ELSE 0
                  IN  IF At(c, plus) = "+" /\ g # 0 /\ At(c, r) = ")" /\ At(c, r + 1) = ";"
                      THEN [end |-> r + 1, g1 |-> SubSeq(c, i + 3, p - 1),
                            g2 |-> SubSeq(c, g, r - 1)]
                      ELSE NoMatch
             ELSE NoMatch
    ELSE NoMatch

\* r'System\.out\.println\(([^"]+)\);' at i.  The group is greedy: it runs to
\* the last ');' that no '"' separates from the call.
MatchVariable(c, i, call) ==
    IF At(c, i) = call /\ At(c, i + 1) = "("
    THEN LET q == NextQuote(c, i + 2)
             ends == {e \in (i + 3)..(q - 2) : c[e] = ")" /\ c[e + 1] = ";"}
         IN  IF ends # {}
             THEN LET e == CHOOSE x \in ends : \A y \in ends : y <= x
                  IN  [end |-> e + 1, g1 |-> SubSeq(c, i + 2, e - 1), g2 |-> <<>>]
             ELSE NoMatch
    ELSE NoMatch

Match(c, i, call, kind) ==
    CASE kind = "literal" -> MatchLiteral(c, i, call)
      [] kind = "concat" -> MatchConcat(c, i, call)
      [] kind = "variable" -> MatchVariable(c, i, call)

\* r'log.info("\1");', r'log.info("\1: {}", \2);', r'log.info("{}",\1);'
Replacement(m, level, kind) ==
    CASE kind = "literal" -> <<level, "(", QUOTE>> \o m.g1 \o <<QUOTE, ")", ";">>
      [] kind = "concat" -> <<level, "(", QUOTE>> \o m.g1 \o <<":", SP, "{}", QUOTE, ",", SP>>
                               \o m.g2 \o <<")", ";">>
      [] kind = "variable" -> <<level, "(", QUOTE, "{}", QUOTE, ",">> \o m.g1 \o <<")", ";">>

\* re.sub(pattern, replacement, content) from position i on: the text up
\* to the leftmost match is kept, the match is replaced and the scan goes on
\* after its end
RECURSIVE Sub(_, _, _, _, _)
Sub(c, i, call, level, kind) ==
    LET starts == {j \in i..Len(c) : c[j] = call /\ Match(c, j, call, kind).end # 0}
    IN  IF starts # {}
        THEN LET start == CHOOSE j \in starts : \A k \in starts : j <= k
                 m == Match(c, start, call, kind)
             IN  SubSeq(c, i, start - 1) \o Replacement(m, level, kind)
                     \o Sub(c, m.end + 1, call, level, kind)
        ELSE SubSeq(c, i, Len(c))

\* for pattern, replacement in patterns: content = re.sub(...)
ReplaceStream(c, call, level) ==
    Sub(Sub(Sub(c, 1, call, level, "literal"), 1, call, level, "concat"),
        1, call, level, "variable")

replace_system_out(c) == ReplaceStream(c, CallOf("out"), "log.info")

\* the System.err patterns with the replacements of the System.out patterns
replace_system_err_as_info(c) == ReplaceStream(c, CallOf("err"), "log.info")

replace_system_err(c) == ReplaceStream(c, CallOf("err"), "log.error")

(***************************************************************************)
(* process_file up to the save: the relevance check, the two insertions    *)
(* and the rewriting.                                                      *)
(***************************************************************************)
\* 'System.out' in content, 'System.err' in content
HasSystemOut(c) == \E i \in 1..Len(c) : c[i] \in {"System.out.println", "System.out.print"}

HasSystemErr(c) == Contains(c, "System.err.println")

\* the relevance check left out: every file goes on to the transformation
RelevantAlways(c) == TRUE

Relevant(c) == HasSystemOut(c) \/ HasSystemErr(c)

WithImports(c) == IF ~has_slf4j_import(c) THEN add_slf4j_import(c) ELSE c

WithLogger(c) ==
    LET class_name == get_class_name(c)
    IN  IF class_name # None /\ ~has_logger_declaration(c)
        THEN add_logger_declaration(c, class_name)
        ELSE c

Transform(c) == replace_system_err(replace_system_out(WithLogger(WithImports(c))))

(***************************************************************************)
(* Input files.  A Java file is an import section, a class header with or  *)
(* without the logger field, and a body of up to MaxStmts statements.      *)
(***************************************************************************)
MaxStmts == 2

Call(fn, arg) == <<NL, INDENT, fn, "(">> \o arg \o <<")", ";">>

Statement(kind) ==
    CASE kind = "outLit" -> Call("System.out.println", <<QUOTE, "Hello", QUOTE>>)
      [] kind = "outCat" -> Call("System.out.println", <<QUOTE, "Value", ":", SP, QUOTE, SP, "+", SP, "x">>)
      [] kind = "outVar" -> Call("System.out.println", <<"result">>)
      [] kind = "errLit" -> Call("System.err.println", <<QUOTE, "Hello", QUOTE>>)
      [] kind = "errCat" -> Call("System.err.println", <<QUOTE, "Value", ":", SP, QUOTE, SP, "+", SP, "x">>)
      [] kind = "errVar" -> Call("System.err.println", <<"result">>)
      [] kind = "print" -> Call("System.out.print", <<"x">>)
      [] kind = "other" -> <<NL, INDENT, "count", SP, "=", SP, "f", "(", "x", ")", ";">>

StmtKinds == {"outLit", "outCat", "outVar", "errLit", "errCat", "errVar", "print", "other"}

ImportLine(name) == <<"import", SP, name, ";", NL>>

Imports(kind) ==
    CASE kind = "none" -> <<>>
      [] kind = "plain" -> ImportLine("java.util.List")
      [] kind = "wildcard" -> ImportLine("java.util.List") \o ImportLine("java.io.*")
      [] kind = "slf4j" -> ImportLine("java.util.List") \o ImportLine("org.slf4j.Logger")
                             \o ImportLine("org.slf4j.LoggerFactory")

ClassHeader(kind) ==
    CASE kind = "plain" -> <<NL, "public", SP, "class", SP, "Foo", SP, "{">>
      [] kind = "annotated" -> <<NL, "@Configuration", NL, "public", SP, "class", SP, "Foo", SP, "{">>
      [] kind = "extends" -> <<NL, "public", SP, "class", SP, "Foo", SP, "extends", SP, "Bar", SP, "{">>
      [] kind = "package" -> <<NL, "class", SP, "Foo", SP, "{">>
      [] kind = "declared" -> <<NL, "public", SP, "class", SP, "Foo", SP, "{">>
                                \o logger_declaration("Foo")

RECURSIVE Body(_)
Body(stmts) == IF stmts = <<>> THEN <<>> ELSE Statement(Head(stmts)) \o Body(Tail(stmts))

JavaFile(imports, class, stmts) ==
    Imports(imports) \o ClassHeader(class) \o Body(stmts) \o <<NL, "}", NL>>

Bodies == UNION {[1..n -> StmtKinds] : n \in 0..MaxStmts}

\* the import section and the class header of the input files
Layouts == {<<"plain", "plain">>, <<"plain", "annotated">>, <<"plain", "extends">>,
            <<"plain", "package">>, <<"plain", "declared">>, <<"none", "plain">>,
            <<"wildcard", "plain">>, <<"slf4j", "plain">>, <<"slf4j", "declared">>}

(***************************************************************************)
(* The directory tree: what os.walk lists for each directory.  A name is a *)
(* sequence of tokens, a path is the tokens of its text.                   *)
(***************************************************************************)
RootDir == <<".">>

\* os.path.join(root, name)
Join(root, name) == root \o <<"/">> \o name

RECURSIVE JoinAll(_, _)
JoinAll(root, names) ==
    IF names = <<>> THEN <<>> ELSE <<Join(root, Head(names))>> \o JoinAll(root, Tail(names))

Listing(dirs, files) == [dirs |-> dirs, files |-> files]

\* one directory with one Java file
SingleTree == (RootDir :> Listing(<<>>, <<<<"Foo", ".java">>>>))

SrcDir == Join(RootDir, <<"src">>)
MainDir == Join(SrcDir, <<"main">>)
MyTargetDir == Join(SrcDir, <<"my", "target">>)
TargetDir == Join(RootDir, <<"target">>)
ClassesDir == Join(TargetDir, <<"classes">>)
GitDir == Join(RootDir, <<".git">>)

ProjectTree ==
    (RootDir :> Listing(<<<<"src">>, <<"target">>, <<".git">>>>, <<<<"A", ".java">>, <<"notes", ".txt">>>>))
    @@ (SrcDir :> Listing(<<<<"main">>, <<"my", "target">>>>, <<<<"B", ".java">>>>))
    @@ (MainDir :> Listing(<<>>, <<<<"M", ".java">>>>))
    @@ (MyTargetDir :> Listing(<<>>, <<<<"C", ".java">>>>))
    @@ (TargetDir :> Listing(<<<<"classes">>>>, <<>>))
    @@ (ClassesDir :> Listing(<<>>, <<<<"D", ".java">>>>))
    @@ (GitDir :> Listing(<<>>, <<<<"E", ".java">>>>))

\* every file of a tree, as a set of paths
FilesOf(t) == UNION {{Join(d, t[d].files[i]) : i \in 1..Len(t[d].files)} : d \in DOMAIN t}

\* the test without its second half
IgnoredOnlyTarget(root) == Contains(root, "target")

\* 'target' in root or '.git' in root
Ignored(root) == Contains(root, "target") \/ Contains(root, ".git")

\* file.endswith('.java')
IsJava(name) == name[Len(name)] = ".java"

(***************************************************************************)
(* The state of one invocation of the script, and of the disk.             *)
(***************************************************************************)
VARIABLES
    tree,           \* the directories of the disk
    fs,             \* the text of every file of the disk
    fs0,            \* the disk when the current invocation started
    run,            \* "first" or "second" invocation
    prev,           \* the previous invocation: its mode and its transcript
    dry_run,        \* '--dry-run' in sys.argv
    pc,             \* where main() is
    todo,           \* the directories os.walk has still to yield
    walked,         \* the directories os.walk has yielded, in order
    java_files,     \* main's java_files
    idx,            \* the position of main's loop in java_files
    updated_count,  \* main's updated_count
    cur,            \* process_file's original_content and content
    reads,          \* the paths opened for reading, in order
    writes,         \* the paths opened for writing, in order
    outcome,        \* the transcript: process_file's last line for each file
    summary         \* the summary line: <<updated_count, len(java_files)>>

vars == <<tree, fs, fs0, run, prev, dry_run, pc, todo, walked, java_files, idx,
          updated_count, cur, reads, writes, outcome, summary>>

NoCur == [original_content |-> <<>>, content |-> <<>>]
NoRun == [dry_run |-> FALSE, outcome |-> <<>>, ran |-> FALSE]

InitRun ==
    /\ fs0 = fs
    /\ run = "first"
    /\ prev = NoRun
    /\ dry_run \in BOOLEAN
    /\ pc = "start"
    /\ todo = <<>>
    /\ walked = <<>>
    /\ java_files = <<>>
    /\ idx = 0
    /\ updated_count = 0
    /\ cur = NoCur
    /\ reads = <<>>
    /\ writes = <<>>
    /\ outcome = <<>>
    /\ summary = <<>>

\* one file, of any content
InitFile ==
    /\ tree = SingleTree
    /\ \E l \in Layouts, b \in Bodies :
           fs = (Join(RootDir, <<"Foo", ".java">>) :> JavaFile(l[1], l[2], b))
    /\ InitRun

\* a project: Java files in walked and in ignored directories
RewritableFile == JavaFile("plain", "plain", <<"outLit", "errVar">>)
SettledFile == JavaFile("slf4j", "declared", <<"print">>)
QuietFile == JavaFile("plain", "plain", <<"other">>)

WalkedContents == {RewritableFile, SettledFile, QuietFile}
IgnoredContents == {RewritableFile, QuietFile}

InitTree ==
    /\ tree = ProjectTree
    /\ \E a \in WalkedContents, b \in WalkedContents, m \in WalkedContents,
          c \in IgnoredContents, d \in IgnoredContents, e \in IgnoredContents :
           fs = (Join(RootDir, <<"A", ".java">>) :> a)
                @@ (Join(RootDir, <<"notes", ".txt">>) :> RewritableFile)
                @@ (Join(SrcDir, <<"B", ".java">>) :> b)
                @@ (Join(MainDir, <<"M", ".java">>) :> m)
                @@ (Join(MyTargetDir, <<"C", ".java">>) :> c)
                @@ (Join(ClassesDir, <<"D", ".java">>) :> d)
                @@ (Join(GitDir, <<"E", ".java">>) :> e)
    /\ InitRun

(***************************************************************************)
(* main()                                                                  *)
(***************************************************************************)
\* java_files = []; os.walk('.') starts at the root
Start ==
    /\ pc = "start"
    /\ pc' = "walk"
    /\ todo' = <<RootDir>>
    /\ java_files' = <<>>
    /\ UNCHANGED <<tree, fs, fs0, run, prev, dry_run, walked, idx, updated_count, cur,
                   reads, writes, outcome, summary>>

\* one iteration of 'for root, dirs, files in os.walk('.')': the walk is
\* top-down, and 'continue' skips the files of root but leaves dirs as it is
WalkStep ==
    /\ pc = "walk"
    /\ todo # <<>>
    /\ LET root == Head(todo)
           found == JoinAll(root, SelectSeq(tree[root].files, IsJava))
       IN  /\ walked' = Append(walked, root)
           /\ todo' = JoinAll(root, tree[root].dirs) \o Tail(todo)
           /\ java_files' = IF Ignored(root) THEN java_files ELSE java_files \o found
    /\ UNCHANGED <<tree, fs, fs0, run, prev, dry_run, pc, idx, updated_count,
                   cur, reads, writes, outcome, summary>>

\* the walk is over: updated_count = 0 and the loop starts
WalkEnd ==
    /\ pc = "walk"
    /\ todo = <<>>
    /\ pc' = "loop"
    /\ idx' = 1
    /\ updated_count' = 0
    /\ UNCHANGED <<tree, fs, fs0, run, prev, dry_run, todo, walked, java_files, cur,
                   reads, writes, outcome, summary>>

\* the loop counts every file, whatever process_file returned
ReturnedCountsAll(result, line) ==
    /\ updated_count' = updated_count + 1
    /\ outcome' = Append(outcome, line)
    /\ idx' = idx + 1
    /\ pc' = "loop"
    /\ cur' = NoCur

\* the result of process_file is counted and the loop moves on
Returned(result, line) ==
    /\ updated_count' = IF result THEN updated_count + 1 ELSE updated_count
    /\ outcome' = Append(outcome, line)
    /\ idx' = idx + 1
    /\ pc' = "loop"
    /\ cur' = NoCur

\* process_file, from the read to the end of the rewriting; a file without
\* System.out and System.err returns False at once
ProcessRead ==
    /\ pc = "loop"
    /\ idx <= Len(java_files)
    /\ LET file_path == java_files[idx]
           content == fs[file_path]
       IN  /\ reads' = Append(reads, file_path)
           /\ IF ~Relevant(content)
              THEN Returned(FALSE, "skipped")
              ELSE /\ cur' = [original_content |-> content, content |-> Transform(content)]
                   /\ pc' = "save"
                   /\ UNCHANGED <<idx, updated_count, outcome>>
    /\ UNCHANGED <<tree, fs, fs0, run, prev, dry_run, todo, walked, java_files, writes, summary>>

\* the comparison left out: every relevant file is saved
ChangedAlways(content, original_content) == TRUE

\* 'if content != original_content'
Changed(content, original_content) == content # original_content

\* the mode ignored: the save writes in preview mode too
WriteBackAlways(dry) == TRUE

\* 'if not dry_run'
WriteBack(dry) == ~dry

\* the save ('Guardar si hay cambios') and the return
ProcessSave ==
    /\ pc = "save"
    /\ LET file_path == java_files[idx]
       IN  IF Changed(cur.content, cur.original_content)
           THEN IF WriteBack(dry_run)
                THEN /\ fs' = [fs EXCEPT ![file_path] = cur.content]
                     /\ writes' = Append(writes, file_path)
                     /\ Returned(TRUE, "written")
                ELSE /\ Returned(TRUE, "previewed")
                     /\ UNCHANGED <<fs, writes>>
           ELSE /\ Returned(FALSE, "unchanged")
                /\ UNCHANGED <<fs, writes>>
    /\ UNCHANGED <<tree, fs0, run, prev, dry_run, todo, walked, java_files, reads, summary>>

\* the fault caught per file: the loop goes on with the next file
ReadFaultContinues ==
    /\ pc = "loop"
    /\ idx <= Len(java_files)
    /\ reads' = Append(reads, java_files[idx])
    /\ outcome' = Append(outcome, "error")
    /\ idx' = idx + 1
    /\ UNCHANGED <<tree, fs, fs0, run, prev, dry_run, pc, todo, walked, java_files,
                   updated_count, cur, writes, summary>>

\* open(file_path, 'r') or f.read() raises: nothing catches it, the
\* traceback is the last thing the run prints
ReadFault ==
    /\ pc = "loop"
    /\ idx <= Len(java_files)
    /\ reads' = Append(reads, java_files[idx])
    /\ outcome' = Append(outcome, "error")
    /\ pc' = "aborted"
    /\ UNCHANGED <<tree, fs, fs0, run, prev, dry_run, todo, walked, java_files, idx,
                   updated_count, cur, writes, summary>>

\* open(file_path, 'w') or f.write() raises: nothing catches it.  The file
\* is as it was when open failed, and truncated when the write failed.
WriteFault ==
    /\ pc = "save"
    /\ Changed(cur.content, cur.original_content)
    /\ WriteBack(dry_run)
    /\ LET file_path == java_files[idx]
       IN  /\ writes' = Append(writes, file_path)
           /\ \E left \in {fs[file_path], <<>>} : fs' = [fs EXCEPT ![file_path] = left]
    /\ outcome' = Append(outcome, "error")
    /\ pc' = "aborted"
    /\ UNCHANGED <<tree, fs0, run, prev, dry_run, todo, walked, java_files, idx,
                   updated_count, cur, reads, summary>>

\* print(f"... Archivos actualizados: {updated_count}/{len(java_files)}")
Summary ==
    /\ pc = "loop"
    /\ idx > Len(java_files)
    /\ summary' = <<updated_count, Len(java_files)>>
    /\ pc' = "done"
    /\ UNCHANGED <<tree, fs, fs0, run, prev, dry_run, todo, walked, java_files, idx,
                   updated_count, cur, reads, writes, outcome>>

\* the script is invoked a second time, on the disk the first run left
Rerun ==
    /\ pc = "done"
    /\ run = "first"
    /\ run' = "second"
    /\ prev' = [dry_run |-> dry_run, outcome |-> outcome, ran |-> TRUE]
    /\ fs0' = fs
    /\ dry_run' \in BOOLEAN
    /\ pc' = "start"
    /\ todo' = <<>>
    /\ walked' = <<>>
    /\ java_files' = <<>>
    /\ idx' = 0
    /\ updated_count' = 0
    /\ cur' = NoCur
    /\ reads' = <<>>
    /\ writes' = <<>>
    /\ outcome' = <<>>
    /\ summary' = <<>>
    /\ UNCHANGED <<tree, fs>>

Next ==
    \/ Start
    \/ WalkStep
    \/ WalkEnd
    \/ ReadFault
    \/ ProcessRead
    \/ WriteFault
    \/ ProcessSave
    \/ Summary
    \/ Rerun

\* the runs of the script over a project
Spec == InitTree /\ [][Next]_vars

\* the runs of the script over one file of any content
SpecFile == InitFile /\ [][Next]_vars

\* the script is sequential code: it takes its next step whenever it has one
FairSpec == InitTree /\ [][Next]_vars /\ WF_vars(Next)

(***************************************************************************)
(* What the properties below speak of                                      *)
(***************************************************************************)
Range(q) == {q[i] : i \in 1..Len(q)}

\* how often the text pat occurs in c
Occurrences(c, pat) ==
    Cardinality({i \in 1..Len(c) : i + Len(pat) - 1 <= Len(c)
                                   /\ SubSeq(c, i, i + Len(pat) - 1) = pat})

\* the text holds neither 'System.out' nor 'System.err'
NoConsoleCall(c) ==
    \A i \in 1..Len(c) :
        c[i] \notin {"System.out.println", "System.out.print", "System.err.println"}

\* the files that ended as written or previewed
Updated(lines) == {i \in 1..Len(lines) : lines[i] \in {"written", "previewed"}}

\* C1: idempotence.  A second non-preview run over the files a first
\* non-preview run left changes no file, and every file ends as skipped or
\* as 'no changes needed', none as updated.
Idempotent ==
    (run = "second" /\ prev.ran /\ ~prev.dry_run /\ ~dry_run /\ pc = "done")
        => /\ fs = fs0
           /\ \A i \in 1..Len(outcome) : outcome[i] \in {"skipped", "unchanged"}

\* C2: a file without 'System.out' and 'System.err' is never transformed
\* and never written, in either mode: it stays as it was, process_file
\* returns at the relevance check, and the file is not counted as updated.
SkipsUnmarked ==
    /\ pc = "save" => ~NoConsoleCall(cur.original_content)
    /\ \A i \in 1..Len(outcome) :
           LET file_path == java_files[i]
           IN  NoConsoleCall(fs0[file_path])
                   => /\ fs[file_path] = fs0[file_path]
                      /\ file_path \notin Range(writes)
                      /\ outcome[i] \in {"skipped", "error"}
    /\ updated_count = Cardinality(Updated(outcome))

\* an unmarked file with a body went through a non-preview and then a
\* preview run
SkippedInBothModes ==
    /\ run = "second" /\ pc = "done"
    /\ ~prev.dry_run /\ dry_run
    /\ prev.outcome = <<"skipped">> /\ outcome = <<"skipped">>
    /\ Contains(fs[java_files[1]], "count")

\* the run would change the text: the file is relevant and its transformed
\* text differs
WouldChange(c) == ~NoConsoleCall(c) /\ Transform(c) # c

\* C3: in preview mode no file is ever written, the disk stays what it was
\* when the run started, every file whose transformed text differs is
\* reported as 'would be updated', and the summary counts exactly those.
PreviewWritesNothing ==
    dry_run =>
        /\ fs = fs0
        /\ writes = <<>>
        /\ \A i \in 1..Len(outcome) :
               outcome[i] # "error"
                   => (outcome[i] = "previewed" <=> WouldChange(fs0[java_files[i]]))
        /\ pc = "done" =>
               summary = <<Cardinality({i \in 1..Len(java_files) :
                                           WouldChange(fs0[java_files[i]])}),
                           Len(java_files)>>

\* a preview run is over and reported files it would update
PreviewReported == dry_run /\ pc = "done" /\ summary[1] >= 1 /\ "previewed" \in Range(outcome)

\* the index of the ';' that ends the last import statement of c
LastImportStatementEnd(c) ==
    LET last == CHOOSE i \in 1..Len(c) : c[i] = "import" /\ \A j \in (i + 1)..Len(c) : c[j] # "import"
    IN  CHOOSE e \in last..Len(c) : c[e] = ";" /\ \A j \in last..(e - 1) : c[j] # ";"

\* the index of the '{' that opens the class of c
ClassBrace(c) == CHOOSE b \in 1..Len(c) : c[b] = "{" /\ \A j \in 1..(b - 1) : c[j] # "{"

\* the name of the class of c
EnclosingClass(c) == c[(CHOOSE i \in 1..Len(c) : c[i] = "class") + 2]

\* C4: a file with an import statement, without an SLF4J import and with a
\* relevant call gets the two logger imports right after its last import
\* statement, and holds exactly one logger field, which names the class and
\* sits right after the opening brace of the class.
InsertsImportsAndLogger ==
    LET c == cur.original_content
        out == cur.content
    IN  (pc = "save" /\ Contains(c, "import")
             /\ ~Contains(c, "org.slf4j.Logger") /\ ~Contains(c, "org.slf4j.LoggerFactory"))
            => LET e == LastImportStatementEnd(c)
                   b == ClassBrace(out)
                   field == logger_declaration(EnclosingClass(c))
               IN  /\ SubSeq(out, 1, e) = SubSeq(c, 1, e)
                   /\ SubSeq(out, e + 1, e + Len(slf4j_imports)) = slf4j_imports
                   /\ Occurrences(out, <<"Logger", SP, "log", SP, "=">>) = 1
                   /\ SubSeq(out, b + 1, b + Len(field)) = field

\* a quote-free call of the stream, System.out.println(result);
VariableCall(call) == <<call, "(", "result", ")", ";">>

\* C6: after one run over a file, every System.out.println(result); has
\* become log.info("{}",result); and every System.err.println(result); has
\* become log.error("{}",result);, however many there are: none is left.
RewritesEveryVariableCall ==
    pc = "save" =>
        LET c == cur.original_content
            out == cur.content
            info == <<"log.info", "(", QUOTE, "{}", QUOTE, ",", "result", ")", ";">>
            error == <<"log.error", "(", QUOTE, "{}", QUOTE, ",", "result", ")", ";">>
        IN  /\ Occurrences(out, VariableCall("System.out.println")) = 0
            /\ Occurrences(out, VariableCall("System.err.println")) = 0
            /\ Occurrences(out, info)
                   = Occurrences(c, info) + Occurrences(c, VariableCall("System.out.println"))
            /\ Occurrences(out, error)
                   = Occurrences(c, error) + Occurrences(c, VariableCall("System.err.println"))

\* the streams of the console and logger calls of c, in the order of the text
Streams(c) ==
    LET IsCall(t) == t \in {"System.out.println", "log.info", "System.err.println", "log.error"}
        calls == SelectSeq(c, IsCall)
    IN  [i \in 1..Len(calls) |->
            IF calls[i] \in {"System.out.println", "log.info"} THEN "out" ELSE "err"]

\* C7: every System.out.println("Hello"); becomes log.info("Hello");, every
\* System.err.println("Value: " + x); becomes log.error("Value: {}", x);,
\* and the calls keep their stream: a System.out call is a System.out call
\* or a log.info afterwards, a System.err call a System.err call or a
\* log.error, in the same order.
RewritesLiteralsBySeverity ==
    pc = "save" =>
        LET c == cur.original_content
            out == cur.content
            outHello == <<"System.out.println", "(", QUOTE, "Hello", QUOTE, ")", ";">>
            infoHello == <<"log.info", "(", QUOTE, "Hello", QUOTE, ")", ";">>
            errValue == <<"System.err.println", "(", QUOTE, "Value", ":", SP, QUOTE, SP, "+", SP, "x", ")", ";">>
            errorValue == <<"log.error", "(", QUOTE, "Value", ":", SP, "{}", QUOTE, ",", SP, "x", ")", ";">>
        IN  /\ Occurrences(out, outHello) = 0
            /\ Occurrences(out, infoHello) = Occurrences(c, infoHello) + Occurrences(c, outHello)
            /\ Occurrences(out, errValue) = 0
            /\ Occurrences(out, errorValue) = Occurrences(c, errorValue) + Occurrences(c, errValue)
            /\ Streams(out) = Streams(c)

\* a file with a literal System.out call and a concatenating System.err
\* call has been rewritten
LiteralAndConcatRewritten ==
    /\ pc = "save"
    /\ Occurrences(cur.original_content, <<"System.out.println", "(", QUOTE, "Hello", QUOTE, ")", ";">>) = 1
    /\ Occurrences(cur.original_content, <<"System.err.println", "(", QUOTE, "Value", ":", SP, QUOTE, SP, "+", SP, "x", ")", ";">>) = 1
    /\ Streams(cur.content) = <<"err", "out">>

\* C8: the writer in non-preview mode.  The save writes the file exactly
\* when the final content differs from the content that was read; the file
\* then holds the final content and process_file returns True (the file is
\* counted); otherwise nothing is written and it returns False.  No other
\* file changes.
WriterRule ==
    [][(pc = "save" /\ pc' = "loop" /\ ~dry_run)
           => LET file_path == java_files[idx]
                  written == writes' # writes
              IN  /\ cur.original_content = fs[file_path]
                  /\ written <=> cur.content # cur.original_content
                  /\ fs'[file_path] = cur.content
                  /\ \A other \in DOMAIN fs \ {file_path} : fs'[other] = fs[other]
                  /\ written => /\ writes' = Append(writes, file_path)
                                /\ updated_count' = updated_count + 1
                                /\ outcome' = Append(outcome, "written")
                  /\ ~written => /\ fs' = fs
                                 /\ updated_count' = updated_count
                                 /\ outcome' = Append(outcome, "unchanged")]_vars

\* a non-preview run wrote one file and left another as it was
WroteAndLeft ==
    /\ ~dry_run /\ run = "second" /\ pc = "done"
    /\ prev.outcome = <<"written">> /\ outcome = <<"unchanged">>
    /\ ~prev.dry_run
    /\ fs # fs0 \/ writes = <<>>

\* the file is at or below a directory whose path holds 'target' or '.git'
BelowMarker(file_path) ==
    \E d \in DOMAIN tree :
        /\ \E i \in 1..Len(d) : d[i] \in {"target", ".git"}
        /\ Len(file_path) > Len(d) + 1
        /\ SubSeq(file_path, 1, Len(d) + 1) = d \o <<"/">>

\* the path of the directory holds 'target' or '.git'
Marked(d) == \E i \in 1..Len(d) : d[i] \in {"target", ".git"}

\* C5 as claimed: the walk never enters a directory whose path holds
\* 'target' or '.git', and so no file at or below one is collected, read
\* or written.
NeverWalksIntoMarked ==
    /\ \A i \in 1..Len(walked) : ~Marked(walked[i])
    /\ \A file_path \in FilesOf(tree) :
           BelowMarker(file_path)
               => /\ file_path \notin Range(java_files)
                  /\ file_path \notin Range(reads)
                  /\ file_path \notin Range(writes)

\* C5, amended: the walk does enter such directories, but no file at or
\* below a directory whose path holds 'target' or '.git' is collected, read
\* or written, whatever it holds; once discovery is over, every directory
\* was walked and every '.java' file of the other directories is collected.
IgnoresMarkedDirectories ==
    /\ \A file_path \in FilesOf(tree) :
           BelowMarker(file_path)
               => /\ file_path \notin Range(java_files)
                  /\ file_path \notin Range(reads)
                  /\ file_path \notin Range(writes)
                  /\ fs[file_path] = fs0[file_path]
    /\ pc \notin {"start", "walk"}
           => /\ Range(walked) = DOMAIN tree
              /\ \A file_path \in FilesOf(tree) :
                     (~BelowMarker(file_path) /\ file_path[Len(file_path)] = ".java")
                         => file_path \in Range(java_files)

\* a non-preview run is over that rewrote files while rewritable files lay
\* under target, under .git and under a directory named like target
IgnoredRewritableFiles ==
    /\ pc = "done" /\ ~dry_run
    /\ Len(java_files) = 3 /\ Len(writes) >= 1
    /\ fs[Join(ClassesDir, <<"D", ".java">>)] = RewritableFile
    /\ fs[Join(GitDir, <<"E", ".java">>)] = RewritableFile
    /\ fs[Join(MyTargetDir, <<"C", ".java">>)] = RewritableFile

\* C9: a failing read or write stops the run at once.  The traceback is the
\* last line of the transcript, no summary is printed, no later file is
\* read or written, and the files rewritten before stay rewritten.
AbortsOnFirstError ==
    \A k \in 1..Len(outcome) :
        outcome[k] = "error"
            => /\ k = Len(outcome)
               /\ pc = "aborted"
               /\ ~ENABLED Next
               /\ summary = <<>>
               /\ reads = SubSeq(java_files, 1, k)
               /\ \A j \in (k + 1)..Len(java_files) :
                      /\ fs[java_files[j]] = fs0[java_files[j]]
                      /\ java_files[j] \notin Range(writes)
               /\ \A j \in 1..(k - 1) :
                      outcome[j] = "written"
                          => /\ fs[java_files[j]] = Transform(fs0[java_files[j]])
                             /\ fs[java_files[j]] # fs0[java_files[j]]

\* the second file failed after the first was rewritten, with a third left
AbortedAfterRewrite ==
    /\ pc = "aborted"
    /\ outcome = <<"written", "error">>
    /\ Len(java_files) = 3

\* the lines process_file can end with
Outcomes == {"skipped", "written", "previewed", "unchanged"}

\* C10, the safety part: discovery is over before the first file is read;
\* the files are read one at a time, each once, in discovery order; every
\* file that was processed ended in exactly one outcome; an error-free run
\* that is over processed every file, and its summary counts the files
\* that ended as written or previewed, out of the files found.
RunInv ==
    /\ reads # <<>> => pc \notin {"start", "walk"} /\ todo = <<>>
    /\ reads = SubSeq(java_files, 1, Len(reads))
    /\ \A i \in 1..Len(java_files), j \in 1..Len(java_files) :
           java_files[i] = java_files[j] => i = j
    /\ Len(outcome) <= Len(reads) /\ Len(reads) <= Len(outcome) + 1
    /\ pc = "save" <=> (Len(reads) = Len(outcome) + 1)
    /\ pc = "aborted" => "error" \in Range(outcome)
    /\ "error" \notin Range(outcome)
           => /\ \A i \in 1..Len(outcome) : outcome[i] \in Outcomes
              /\ pc = "done"
                     => /\ Len(outcome) = Len(java_files)
                        /\ summary = <<Cardinality(Updated(outcome)), Len(java_files)>>
                        /\ summary[1] <= summary[2]

\* C10: the safety part at every step, and every run that starts ends: it
\* prints its summary or stops on an error.
SequentialRun == []RunInv /\ ((pc = "start") ~> (pc \in {"done", "aborted"}))

\* an error-free run over three files is over, with files updated and not
ThreeFilesDone ==
    /\ pc = "done"
    /\ Len(outcome) = 3
    /\ summary = <<2, 3>>
    /\ "skipped" \in Range(outcome)

====
